---- MODULE Spec2Model ----
(***************************************************************************)
(* Model of ftpspider.py: parse_dir, the generator walk() and the          *)
(* FTPSpider controller (construction, spider(), __download, __finalize);  *)
(* and of main() of dedupe.py.                                             *)
(*                                                                         *)
(* A remote directory is named by its path, a sequence of directory names  *)
(* (naturals); <<>> is "/".  A date is a number of periods: a year has     *)
(* PeriodsPerYear periods and date = year * PeriodsPerYear + period.       *)
(***************************************************************************)
EXTENDS Integers, Sequences, FiniteSets, TLC

\* ------------------------------------------------------------------ bounds
MaxDirs == 4            \* directories of a remote tree, walk() alone
MaxEntries == 3         \* subdirectories and files of a remote tree, spider()
MaxRuns == 2            \* controllers constructed and run in succession
RecentWindow == 2       \* periods a server shows with HH:MM instead of a year
ClockTicks == 1         \* periods the clock may advance

PeriodsPerYear == 2 * RecentWindow
StartTime == PeriodsPerYear - 1
MaxTime == StartTime + ClockTicks

VARIABLES
    \* the remote site and the clock
    tree,           \* set of directory paths, prefix closed
    rfiles,         \* <<dir path, file name>> -> modification time
    now,            \* datetime.datetime.now(), in periods
    \* the ftplib.FTP object
    session,        \* "open" | "broken" | "closed"
    ftp_cwd,        \* the session's current directory
    \* the generator walk()
    wpc,            \* "none" | "init" | "list" | "yielded" | "advance" | "done" | "failed"
    starting_path,
    dir_stack,
    dirs,
    rec,            \* the record last yielded
    \* observation of walk()
    visited, n_down, n_up, n_push, n_pop,
    \* the FTPSpider object and the process
    pc,             \* position of the controller
    downloaded,     \* self._downloaded
    statefile,      \* the pickle on disk, or NoFile
    files_left,     \* rest of "for _file, date in files"
    proc_cwd,       \* os.getcwd()
    current_dir,    \* local of spider()
    ldirs,          \* local directories that exist under the target root
    \* observation of spider()
    run, loaded, retrieved, completed, failure, fin_log, runs_log,
    \* the local file system of spider()
    tar_dir,        \* self._tar_dir
    lfiles,         \* <<local directory, file name>> -> the chunks written to it
    local_log,      \* observation: <<remote directory, local directory>> of this run
    \* parse_dir on its own
    p_pc,           \* "none" | "ready" | "returned"
    p_lines,        \* the listing lines handed to the callback
    p_now,          \* datetime.datetime.now() at the parse
    p_out,          \* what parse_dir returned
    \* dedupe.py: main() and the directory it works on
    d_pc,           \* "none" | "scan" | "hash" | "collect" | "remove" | "done" | "raised"
    d_delete, d_interactive,
    d_files,        \* path -> content, the files under dir_path
    d_initial,      \* observation: d_files when main() was called
    d_sizes,        \* sizes
    d_hashes,       \* hashes
    d_duplicates,   \* the groups "for f_paths in duplicates" has still to take
    d_o_file,       \* o_file
    d_rest          \* rest of "for f_path in duplicates", the inner loop

envvars == <<tree, rfiles, now>>
sessvars == <<session, ftp_cwd>>
walkvars == <<wpc, starting_path, dir_stack, dirs, rec>>
walkobs == <<visited, n_down, n_up, n_push, n_pop>>
spidervars == <<pc, downloaded, statefile, files_left, proc_cwd, current_dir, ldirs>>
spiderobs == <<run, loaded, retrieved, completed, failure, fin_log, runs_log>>
localvars == <<tar_dir, lfiles, local_log>>
parsevars == <<p_pc, p_lines, p_now, p_out>>
dedupevars == <<d_pc, d_delete, d_interactive, d_files, d_initial, d_sizes, d_hashes, d_duplicates,
                d_o_file, d_rest>>
vars == <<envvars, sessvars, walkvars, walkobs, spidervars, spiderobs, localvars, parsevars,
          dedupevars>>

\* the parts of the model a specification leaves out stay as they are here
ParseIdle == p_pc = "none" /\ p_lines = <<>> /\ p_now = 0 /\ p_out = <<>>
DedupeIdle ==
    /\ d_pc = "none"
    /\ d_delete = FALSE /\ d_interactive = FALSE
    /\ d_files = <<>> /\ d_initial = <<>>
    /\ d_sizes = <<>> /\ d_hashes = <<>>
    /\ d_duplicates = {}
    /\ d_o_file = 0
    /\ d_rest = <<>>

\* ------------------------------------------------------ local directories
\* A local directory is named by its path below Home, the directory the
\* process is in when the controller is constructed; the target directory is
\* Home/TargetName, handed to __init__ as an absolute or as a relative path.
Home == <<>>
TargetName == 0
TargetDirs == {[abs |-> TRUE, path |-> <<TargetName>>], [abs |-> FALSE, path |-> <<TargetName>>]}

\* ------------------------------------------------------------ remote trees
Root == <<>>
Front(s) == SubSeq(s, 1, Len(s) - 1)
Last(s) == s[Len(s)]
IsPrefix(p, q) == Len(p) <= Len(q) /\ SubSeq(q, 1, Len(p)) = p
IsProperPrefix(p, q) == Len(p) < Len(q) /\ SubSeq(q, 1, Len(p)) = p

Children(S, p) == {q \in S : Len(q) = Len(p) + 1 /\ IsPrefix(p, q)}
Grow(S) == {S \cup {Append(p, Cardinality(Children(S, p)) + 1)} : p \in S}
RECURSIVE TreesOfSize(_)
TreesOfSize(n) == IF n <= 1 THEN {{Root}} ELSE UNION {Grow(S) : S \in TreesOfSize(n - 1)}
Trees(max) == UNION {TreesOfSize(n) : n \in 1..max}

\* names of the subdirectories of p, in listing order
RECURSIVE SeqTo(_)
SeqTo(k) == IF k = 0 THEN <<>> ELSE Append(SeqTo(k - 1), k)
SubdirNames(p) == SeqTo(Cardinality(Children(tree, p)))

\* ------------------------------------------------------- the server's listing
FileNames == <<"a", "b", "ln -> a">>
Colon == -1             \* an HH:MM token in the place of the year
NoFile == [exists |-> FALSE, data |-> <<>>]   \* os.path.exists(statefile) is false

\* The line "ls -l" prints for an entry modified at m when listed at t: the
\* year is shown for old entries and replaced by HH:MM for recent ones.
Tok7(m, t) == IF t - m < RecentWindow THEN Colon ELSE m \div PeriodsPerYear
Line(perms, name, m, t) ==
    [perms |-> perms, ntok |-> 9, md |-> m % PeriodsPerYear, tok7 |-> Tok7(m, t), name |-> name]
ShortLine == [perms |-> "-", ntok |-> 5, md |-> 0, tok7 |-> 0, name |-> ""]

RECURSIVE FileLines(_, _, _, _)
FileLines(p, rf, t, i) ==
    IF i > Len(FileNames) THEN <<>>
    ELSE LET n == FileNames[i]
             rest == FileLines(p, rf, t, i + 1)
         IN IF <<p, n>> \in DOMAIN rf
            THEN <<Line(IF n = "ln -> a" THEN "l" ELSE "-", n, rf[<<p, n>>], t)>> \o rest
            ELSE rest
RECURSIVE DirLines(_, _)
DirLines(names, t) ==
    IF names = <<>> THEN <<>>
    ELSE Append(DirLines(Front(names), t), Line("d", Last(names), 0, t))
Listing(p, rf, t) == FileLines(p, rf, t, 1) \o DirLines(SubdirNames(p), t)

\* ---------------------------------------------------------------- parse_dir
MkDate(year, md) == year * PeriodsPerYear + md

\* ":" in split_line[7]: every negative token stands for some HH:MM
HasColonNever(tok) == FALSE
HasColon(tok) == tok < 0

\* one line of the loop of parse_dir: "err" when an index or strptime raises
ParseLine(line, t) ==
    IF line.ntok < 8 \/ line.md \notin 0..(PeriodsPerYear - 1)
    THEN [err |-> TRUE, isdir |-> FALSE, entry |-> <<"", 0>>]
    ELSE LET year == IF HasColon(line.tok7) THEN t \div PeriodsPerYear ELSE line.tok7
             name == IF line.ntok = 8 THEN "" ELSE line.name
         IN [err |-> FALSE, isdir |-> (line.perms = "d"), entry |-> <<name, MkDate(year, line.md)>>]

RECURSIVE ParseDir(_, _)
ParseDir(lines, t) ==
    IF lines = <<>> THEN [err |-> FALSE, dirs |-> <<>>, files |-> <<>>]
    ELSE LET head == ParseDir(Front(lines), t)
             l == ParseLine(Last(lines), t)
         IN IF head.err \/ Last(lines).ntok = 0 THEN head
            ELSE IF l.err THEN [err |-> TRUE, dirs |-> <<>>, files |-> <<>>]
            ELSE IF l.isdir
                 THEN [head EXCEPT !.dirs = Append(@, l.entry)]
                 ELSE [head EXCEPT !.files = Append(@, l.entry)]

Names(entries) == [i \in 1..Len(entries) |-> entries[i][1]]

\* ------------------------------------------------------------ the session
\* A command either succeeds, is refused by the server (the session stays
\* usable) or finds the connection gone (every later command fails too).
Outcomes == IF session = "open" THEN {"ok", "refused", "lost"} ELSE {"lost"}
After(o) == IF o = "lost" /\ session = "open" THEN "broken" ELSE session

NoRec == [cwd |-> Root, dirs |-> <<>>, files |-> <<>>]

\* list.pop(): the item removed and the list it leaves
PopItemFirst(l) == Head(l)
PopItem(l) == Last(l)
PopRestKeepsItem(l) == l
PopRest(l) == Front(l)

\* where ftp_obj.cwd(name) and ftp_obj.cwd("..") leave the session
CwdIntoFromRoot(p, name) == <<name>>
CwdInto(p, name) == Append(p, name)
CwdUpStays(p) == p
CwdUp(p) == IF p = Root THEN Root ELSE Front(p)

\* ------------------------------------------------------------------ walk()
\* ftp_obj.cwd(starting_path), with dir_stack = [] and done = False
WalkStart ==
    /\ wpc = "init"
    /\ \E o \in Outcomes :
         /\ session' = After(o)
         /\ IF o = "ok"
            THEN ftp_cwd' = starting_path /\ wpc' = "list"
            ELSE ftp_cwd' = ftp_cwd /\ wpc' = "failed"
    /\ UNCHANGED <<localvars, parsevars, dedupevars, envvars, starting_path, dir_stack, dirs, rec,
                   walkobs, spidervars, spiderobs>>

\* parse_dir(ftp_obj), ftp_obj.pwd() and the yield
WalkList ==
    /\ wpc = "list"
    /\ \/ \E o \in Outcomes \ {"ok"} :
            /\ session' = After(o)
            /\ wpc' = "failed"
            /\ UNCHANGED <<rec, dirs, visited>>
       \/ \E bad \in {<<>>, <<ShortLine>>} :
            LET parsed == ParseDir(Listing(ftp_cwd, rfiles, now) \o bad, now)
            IN /\ "ok" \in Outcomes
               /\ session' = After("ok")
               /\ IF ~parsed.err
                  THEN /\ rec' = [cwd |-> ftp_cwd, dirs |-> parsed.dirs, files |-> parsed.files]
                       /\ dirs' = Names(parsed.dirs)
                       /\ visited' = Append(visited, ftp_cwd)
                       /\ wpc' = "yielded"
                  ELSE /\ wpc' = "failed"
                       /\ UNCHANGED <<rec, dirs, visited>>
    /\ UNCHANGED <<localvars, parsevars, dedupevars, envvars, ftp_cwd, starting_path, dir_stack,
                   n_down, n_up, n_push, n_pop, spidervars, spiderobs>>

\* next_dir = dirs.pop(); ftp_obj.cwd(next_dir); dir_stack.append(dirs)
WalkDescend ==
    /\ wpc = "advance"
    /\ dirs # <<>>
    /\ dirs' = PopRest(dirs)
    /\ \E o \in Outcomes :
         /\ session' = After(o)
         /\ IF o = "ok"
            THEN /\ ftp_cwd' = CwdInto(ftp_cwd, PopItem(dirs))
                 /\ dir_stack' = Append(dir_stack, PopRest(dirs))
                 /\ n_down' = n_down + 1
                 /\ n_push' = n_push + 1
                 /\ wpc' = "list"
            ELSE /\ wpc' = "failed"
                 /\ UNCHANGED <<ftp_cwd, dir_stack, n_down, n_push>>
    /\ UNCHANGED <<localvars, parsevars, dedupevars, envvars, starting_path, rec, visited, n_up,
                   n_pop, spidervars, spiderobs>>

\* dirs = dir_stack.pop(); ftp_obj.cwd("..")
WalkBacktrack ==
    /\ wpc = "advance"
    /\ dirs = <<>>
    /\ dir_stack # <<>>
    /\ dirs' = PopItem(dir_stack)
    /\ dir_stack' = PopRest(dir_stack)
    /\ n_pop' = n_pop + 1
    /\ \E o \in Outcomes :
         /\ session' = After(o)
         /\ IF o = "ok"
            THEN /\ ftp_cwd' = CwdUp(ftp_cwd)
                 /\ n_up' = n_up + 1
                 /\ wpc' = "advance"
            ELSE /\ wpc' = "failed"
                 /\ UNCHANGED <<ftp_cwd, n_up>>
    /\ UNCHANGED <<localvars, parsevars, dedupevars, envvars, starting_path, rec, visited, n_down,
                   n_push, spidervars, spiderobs>>

\* done = True; break
WalkSpins ==
    /\ wpc = "advance"
    /\ dirs = <<>>
    /\ dir_stack = <<>>
    /\ UNCHANGED vars
WalkDone ==
    /\ wpc = "advance"
    /\ dirs = <<>>
    /\ dir_stack = <<>>
    /\ wpc' = "done"
    /\ UNCHANGED <<localvars, parsevars, dedupevars, envvars, sessvars, starting_path, dir_stack,
                   dirs, rec, walkobs, spidervars, spiderobs>>

\* a consumer of the generator asks for the next record
Consume ==
    /\ wpc = "yielded"
    /\ pc = "nospider"
    /\ wpc' = "advance"
    /\ UNCHANGED <<localvars, parsevars, dedupevars, envvars, sessvars, starting_path, dir_stack,
                   dirs, rec, walkobs, spidervars, spiderobs>>

\* ------------------------------------------------- walk() on its own
InitWalk ==
    /\ tree \in Trees(MaxDirs)
    /\ rfiles \in {[x \in F |-> StartTime] : F \in SUBSET ({Root} \X {"a", "ln -> a"})}
    /\ now = StartTime
    /\ session = "open"
    /\ ftp_cwd = Root
    /\ wpc = "init"
    /\ starting_path \in tree
    /\ dir_stack = <<>>
    /\ dirs = <<>>
    /\ rec = NoRec
    /\ visited = <<>>
    /\ n_down = 0 /\ n_up = 0 /\ n_push = 0 /\ n_pop = 0
    /\ pc = "nospider"
    /\ downloaded = <<>>
    /\ statefile = NoFile
    /\ files_left = <<>>
    /\ proc_cwd = Home
    /\ current_dir = Home
    /\ ldirs = {Home}
    /\ tar_dir = [abs |-> TRUE, path |-> Home]
    /\ lfiles = <<>>
    /\ local_log = {}
    /\ ParseIdle
    /\ DedupeIdle
    /\ run = 0
    /\ loaded = <<>>
    /\ retrieved = <<>>
    /\ completed = <<>>
    /\ failure = FALSE
    /\ fin_log = <<>>
    /\ runs_log = <<>>

NextWalk == WalkStart \/ WalkList \/ WalkDescend \/ WalkBacktrack \/ WalkDone \/ Consume
SpecWalk == InitWalk /\ [][NextWalk]_vars
\* the generator and a consumer that keeps asking: sequential code that runs on
SpecWalkFair == SpecWalk /\ WF_vars(NextWalk)

\* --------------------------------------------------------------- FTPSpider
\* ftp_file_p = cwd + "/" + _file
FullPath(cwd, name) == <<cwd, name>>
\* "->" in _file
IsLinkNever(name) == FALSE
IsLink(name) == name = "ln -> a"
\* ftp_file_p in self._downloaded and date <= self._downloaded[ftp_file_p]
HasCurrentVersionNever(store, key, date) == FALSE
HasCurrentVersion(store, key, date) == key \in DOMAIN store /\ date <= store[key]
\* self._downloaded[ftp_file_p] = date
Record(store, key, date) == [k \in DOMAIN store \cup {key} |-> IF k = key THEN date ELSE store[k]]
\* self.__download(_file) followed by the assignment it guards
AfterDownloadAlways(store, key, date, o) == Record(store, key, date)
AfterDownloadNever(store, key, date, o) == store
AfterDownload(store, key, date, o) == IF o = "ok" THEN Record(store, key, date) ELSE store
\* __init__: the store is empty unless the state file exists
LoadState(file) == IF file.exists THEN file.data ELSE <<>>
\* __finalize: pickle.dump(self._downloaded, outf)
SaveState(store) == [exists |-> TRUE, data |-> store]
\* os.path.join(self._tar_dir, *cwd_parts), for an absolute target
\* os.path.join(self._tar_dir, *cwd_parts)
WriteDir(tar, cwd) == [abs |-> tar.abs, path |-> tar.path \o cwd]
\* the directory the operating system takes a path to name, for a process in "at"
ResolveAlwaysRelative(wd, at) == at \o wd.path
Resolve(wd, at) == IF wd.abs THEN wd.path ELSE at \o wd.path

\* the chunks one retrieval of the version of time m hands to the callback:
\* the whole file, or its beginning when the transfer is cut short
Whole(m) == <<m>>
Part(m) == <<-1 - m>>
\* open(f_name, 'ab').write(chunk), for a process in "at"
Written(files, at, name, chunks) ==
    LET f == <<at, name>>
    IN [g \in DOMAIN files \cup {f} |->
            IF g # f THEN files[g]
            ELSE IF f \in DOMAIN files THEN files[f] \o chunks ELSE chunks]

Between == pc \in {"idle", "returned", "raised"}

\* FTPSpider(host, ...): connect, log in, load the state file
ConstructUpTo(n) ==
    /\ Between
    /\ run < n
    /\ run' = run + 1
    /\ session' = "open"
    /\ ftp_cwd' = Root
    /\ downloaded' = LoadState(statefile)
    /\ loaded' = LoadState(statefile)
    /\ pc' = "ready"
    /\ UNCHANGED <<localvars, parsevars, dedupevars, envvars, walkvars, walkobs, statefile,
                   files_left, proc_cwd, current_dir, ldirs, retrieved, completed, failure,
                   fin_log, runs_log>>

Construct == ConstructUpTo(MaxRuns)
ConstructOnce == ConstructUpTo(1)

\* spider(): current_dir = os.getcwd(); the for statement creates the generator
SpiderStart ==
    /\ pc = "ready"
    /\ current_dir' = proc_cwd
    /\ wpc' = "init"
    /\ starting_path' = Root
    /\ dir_stack' = <<>>
    /\ dirs' = <<>>
    /\ rec' = NoRec
    /\ visited' = <<>>
    /\ n_down' = 0 /\ n_up' = 0 /\ n_push' = 0 /\ n_pop' = 0
    /\ retrieved' = <<>>
    /\ completed' = <<>>
    /\ failure' = FALSE
    /\ fin_log' = <<>>
    /\ local_log' = {}
    /\ pc' = "next"
    /\ UNCHANGED <<tar_dir, lfiles, parsevars, dedupevars, envvars, sessvars, downloaded, statefile,
                   files_left, proc_cwd, ldirs, run, loaded, runs_log>>

\* the body for one record: os.mkdir(write_dir) if it is absent, os.chdir(write_dir)
SpiderEnterDir ==
    /\ pc = "next"
    /\ wpc = "yielded"
    /\ \E o \in {"ok", "mkdir fails", "chdir fails"} :
         LET write_dir == Resolve(WriteDir(tar_dir, rec.cwd), proc_cwd)
             absent == write_dir \notin ldirs
             made == absent /\ o # "mkdir fails" /\ Front(write_dir) \in ldirs
         IN /\ (o = "mkdir fails") => absent
            /\ ldirs' = IF made THEN ldirs \cup {write_dir} ELSE ldirs
            /\ local_log' = local_log \cup {<<rec.cwd, write_dir>>}
            /\ IF o = "ok" /\ (made \/ ~absent)
               THEN /\ proc_cwd' = write_dir
                    /\ files_left' = rec.files
                    /\ pc' = "files"
               ELSE /\ pc' = "except"
                    /\ UNCHANGED <<proc_cwd, files_left>>
    /\ UNCHANGED <<tar_dir, lfiles, parsevars, dedupevars, envvars, sessvars, walkvars, walkobs,
                   downloaded, statefile, current_dir, spiderobs>>

\* one pass of "for _file, date in files" that ends in a continue
SpiderSkip ==
    /\ pc = "files"
    /\ files_left # <<>>
    /\ LET name == Head(files_left)[1]
           date == Head(files_left)[2]
       IN IsLink(name) \/ HasCurrentVersion(downloaded, FullPath(rec.cwd, name), date)
    /\ files_left' = Tail(files_left)
    /\ UNCHANGED <<localvars, parsevars, dedupevars, envvars, sessvars, walkvars, walkobs, pc,
                   downloaded, statefile, proc_cwd, current_dir, ldirs, spiderobs>>

\* one pass that retrieves: self.__download(_file); self._downloaded[ftp_file_p] = date
SpiderDownload ==
    /\ pc = "files"
    /\ files_left # <<>>
    /\ LET name == Head(files_left)[1]
           date == Head(files_left)[2]
           key == FullPath(rec.cwd, name)
       IN /\ ~IsLink(name)
          /\ ~HasCurrentVersion(downloaded, key, date)
          /\ retrieved' = Append(retrieved, key)
          /\ \E o \in Outcomes \cup {"write fails", "cut short"} :
               /\ session' = After(IF o = "cut short" THEN "lost" ELSE o)
               /\ lfiles' = IF o = "ok" THEN Written(lfiles, proc_cwd, name, Whole(rfiles[key]))
                             ELSE IF o = "cut short"
                                  THEN Written(lfiles, proc_cwd, name, Part(rfiles[key]))
                                  ELSE lfiles
               /\ downloaded' = AfterDownload(downloaded, key, date, o)
               /\ IF o = "ok"
                  THEN /\ completed' = Record(completed, key, date)
                       /\ files_left' = Tail(files_left)
                       /\ pc' = "files"
                  ELSE /\ pc' = "except"
                       /\ UNCHANGED <<completed, files_left>>
    /\ UNCHANGED <<tar_dir, local_log, parsevars, dedupevars, envvars, ftp_cwd, walkvars, walkobs,
                   statefile, proc_cwd, current_dir, ldirs, run, loaded, failure, fin_log,
                   runs_log>>

\* the files of the record are done: the for statement resumes the generator
SpiderNext ==
    /\ pc = "files"
    /\ files_left = <<>>
    /\ pc' = "next"
    /\ wpc' = "advance"
    /\ UNCHANGED <<localvars, parsevars, dedupevars, envvars, sessvars, starting_path, dir_stack,
                   dirs, rec, walkobs, downloaded, statefile, files_left, proc_cwd, current_dir,
                   ldirs, spiderobs>>

\* an exception raised inside the generator reaches the try statement
SpiderWalkRaised ==
    /\ pc = "next"
    /\ wpc = "failed"
    /\ pc' = "except"
    /\ UNCHANGED <<localvars, parsevars, dedupevars, envvars, sessvars, walkvars, walkobs,
                   downloaded, statefile, files_left, proc_cwd, current_dir, ldirs, spiderobs>>

\* the for statement is left: the generator and the loop's locals are dropped
DropGenerator ==
    /\ wpc' = "none"
    /\ starting_path' = Root
    /\ dir_stack' = <<>>
    /\ dirs' = <<>>
    /\ rec' = NoRec
    /\ visited' = <<>>
    /\ n_down' = 0 /\ n_up' = 0 /\ n_push' = 0 /\ n_pop' = 0
    /\ files_left' = <<>>

\* except Exception: traceback.print_exc()
SpiderExcept ==
    /\ pc = "except"
    /\ failure' = TRUE
    /\ pc' = "finally"
    /\ DropGenerator
    /\ UNCHANGED <<localvars, parsevars, dedupevars, envvars, sessvars, downloaded, statefile,
                   proc_cwd, current_dir, ldirs, run, loaded, retrieved, completed, fin_log,
                   runs_log>>

\* the generator is exhausted: the for statement ends
SpiderExhausted ==
    /\ pc = "next"
    /\ wpc = "done"
    /\ pc' = "finally"
    /\ DropGenerator
    /\ UNCHANGED <<localvars, parsevars, dedupevars, envvars, sessvars, downloaded, statefile,
                   proc_cwd, current_dir, ldirs, spiderobs>>

\* finally: os.chdir(current_dir)
FinRestore ==
    /\ pc = "finally"
    /\ proc_cwd' = current_dir
    /\ fin_log' = Append(fin_log, "restore")
    /\ pc' = "save"
    /\ UNCHANGED <<localvars, parsevars, dedupevars, envvars, sessvars, walkvars, walkobs,
                   downloaded, statefile, files_left, current_dir, ldirs, run, loaded, retrieved,
                   completed, failure, runs_log>>

\* __finalize: pickle.dump(self._downloaded, outf)
FinSave ==
    /\ pc = "save"
    /\ statefile' = SaveState(downloaded)
    /\ fin_log' = Append(fin_log, "persist")
    /\ pc' = "quit"
    /\ UNCHANGED <<localvars, parsevars, dedupevars, envvars, sessvars, walkvars, walkobs,
                   downloaded, files_left, proc_cwd, current_dir, ldirs, run, loaded, retrieved,
                   completed, failure, runs_log>>

RunRecord(raised) ==
    [now |-> now, rfiles |-> rfiles, failure |-> failure, raised |-> raised,
     retrieved |-> retrieved, loaded |-> loaded, stored |-> downloaded, saved |-> statefile]

\* __finalize: self._ftp.quit(), which sends QUIT and closes the connection
\* when the server answers, and raises otherwise; the finally block has no
\* handler, so what quit() raises leaves spider()
FinQuit ==
    /\ pc = "quit"
    /\ \E o \in Outcomes \ {"refused"} :
         IF o = "ok"
         THEN /\ session' = "closed"
              /\ fin_log' = Append(fin_log, "close")
              /\ pc' = "returned"
              /\ runs_log' = Append(runs_log, RunRecord(FALSE))
         ELSE /\ session' = After(o)
              /\ fin_log' = fin_log
              /\ pc' = "raised"
              /\ runs_log' = Append(runs_log, RunRecord(TRUE))
    /\ UNCHANGED <<localvars, parsevars, dedupevars, envvars, ftp_cwd, walkvars, walkobs,
                   downloaded, statefile, files_left, proc_cwd, current_dir, ldirs, run, loaded,
                   retrieved, completed, failure>>

\* ------------------------------------------------------------ environment
\* time passes between two runs (a run is short against a period, so the
\* clock read by parse_dir is the same for every line of one run)
Tick ==
    /\ Between
    /\ run >= 1 /\ run < MaxRuns
    /\ now < MaxTime
    /\ now' = now + 1
    /\ UNCHANGED <<localvars, parsevars, dedupevars, tree, rfiles, sessvars, walkvars, walkobs,
                   spidervars, spiderobs>>

\* a remote file is modified between two runs, in a period later than the
\* one of its last modification
Touch ==
    /\ Between
    /\ run >= 1 /\ run < MaxRuns
    /\ \E f \in DOMAIN rfiles :
         /\ rfiles[f] < now
         /\ rfiles' = [rfiles EXCEPT ![f] = now]
    /\ UNCHANGED <<localvars, parsevars, dedupevars, tree, now, sessvars, walkvars, walkobs,
                   spidervars, spiderobs>>

RegularKeys(rf) == {f \in DOMAIN rf : ~IsLink(f[2])}
FileSlots(t) == {<<p, FileNames[i]>> : p \in t, i \in 1..Len(FileNames)}
\* the file entries a tree of t may hold within MaxEntries
FileSets(t) ==
    {F \in SUBSET FileSlots(t) :
        /\ Cardinality(t) - 1 + Cardinality(F) <= MaxEntries
        /\ \A p \in t : <<p, "b">> \in F => <<p, "a">> \in F}

\* a remote site, no controller constructed yet
InitSite ==
    /\ tree \in Trees(MaxEntries + 1)
    /\ \E F \in FileSets(tree) : rfiles \in [F -> {0, StartTime}]
    /\ now = StartTime
    /\ session = "closed"
    /\ ftp_cwd = Root
    /\ wpc = "none"
    /\ starting_path = Root
    /\ dir_stack = <<>>
    /\ dirs = <<>>
    /\ rec = NoRec
    /\ visited = <<>>
    /\ n_down = 0 /\ n_up = 0 /\ n_push = 0 /\ n_pop = 0
    /\ pc = "idle"
    /\ downloaded = <<>>
    /\ files_left = <<>>
    /\ proc_cwd = Home
    /\ current_dir = Home
    /\ tar_dir \in TargetDirs
    /\ lfiles = <<>>
    /\ local_log = {}
    /\ ParseIdle
    /\ DedupeIdle
    /\ run = 0
    /\ loaded = <<>>
    /\ retrieved = <<>>
    /\ completed = <<>>
    /\ failure = FALSE
    /\ fin_log = <<>>
    /\ runs_log = <<>>

\* successive runs, the first with no state file and an empty target directory
Init ==
    /\ InitSite
    /\ statefile = NoFile
    /\ ldirs = {Home, <<TargetName>>}

Next ==
    \/ Construct \/ SpiderStart
    \/ WalkStart \/ WalkList \/ WalkDescend \/ WalkBacktrack \/ WalkDone
    \/ SpiderEnterDir \/ SpiderSkip \/ SpiderDownload \/ SpiderNext
    \/ SpiderWalkRaised \/ SpiderExcept \/ SpiderExhausted
    \/ FinRestore \/ FinSave \/ FinQuit
    \/ Tick \/ Touch
Spec == Init /\ [][Next]_vars

\* one run, from any state file and target directory earlier runs may have left
StateFiles(rf) ==
    {NoFile} \cup {[exists |-> TRUE, data |-> st] :
                        st \in UNION {[K -> {0, StartTime}] : K \in SUBSET RegularKeys(rf)}}
InitRun ==
    /\ InitSite
    /\ statefile \in StateFiles(rfiles)
    /\ ldirs \in {{Home, <<TargetName>>}, {Home} \cup {<<TargetName>> \o p : p \in tree}}

NextRun ==
    \/ ConstructOnce \/ SpiderStart
    \/ WalkStart \/ WalkList \/ WalkDescend \/ WalkBacktrack \/ WalkDone
    \/ SpiderEnterDir \/ SpiderSkip \/ SpiderDownload \/ SpiderNext
    \/ SpiderWalkRaised \/ SpiderExcept \/ SpiderExhausted
    \/ FinRestore \/ FinSave \/ FinQuit
SpecRun == InitRun /\ [][NextRun]_vars

\* ------------------------------------------------------ parse_dir alone
\* The lines a server may send: well-formed ones for a directory, a file and
\* a link, dated at either end of a year, with the year or an HH:MM; and
\* malformed ones: blank, with too few tokens, with no name, with a bad date.
MaxLines == 2           \* lines of a listing handed to parse_dir alone
AnotherColon == -2      \* an HH:MM token for another time of the day
GoodLines ==
    {[perms |-> k[1], ntok |-> k[2], md |-> md, tok7 |-> tok, name |-> k[3]] :
        k \in {<<"d", 9, "a">>, <<"-", 9, "a">>, <<"l", 11, "ln -> a">>},
        md \in {0, PeriodsPerYear - 1},
        tok \in {Colon, AnotherColon, 0, 1}}
BadLines ==
    {[perms |-> "-", ntok |-> n, md |-> 0, tok7 |-> 0, name |-> ""] : n \in {0, 5, 7, 8}}
    \cup {[perms |-> "-", ntok |-> 9, md |-> PeriodsPerYear, tok7 |-> 0, name |-> "a"]}
ListingsUpTo(n) == UNION {[1..k -> GoodLines \cup BadLines] : k \in 0..n}

\* everything of ftpspider.py but parse_dir is left out
NoSpider ==
    /\ tree = {Root}
    /\ rfiles = <<>>
    /\ now = StartTime
    /\ session = "closed"
    /\ ftp_cwd = Root
    /\ wpc = "none"
    /\ starting_path = Root
    /\ dir_stack = <<>>
    /\ dirs = <<>>
    /\ rec = NoRec
    /\ visited = <<>>
    /\ n_down = 0 /\ n_up = 0 /\ n_push = 0 /\ n_pop = 0
    /\ pc = "nospider"
    /\ downloaded = <<>>
    /\ statefile = NoFile
    /\ files_left = <<>>
    /\ proc_cwd = Home
    /\ current_dir = Home
    /\ ldirs = {Home}
    /\ run = 0
    /\ loaded = <<>>
    /\ retrieved = <<>>
    /\ completed = <<>>
    /\ failure = FALSE
    /\ fin_log = <<>>
    /\ runs_log = <<>>
    /\ tar_dir = [abs |-> TRUE, path |-> Home]
    /\ lfiles = <<>>
    /\ local_log = {}

InitParse ==
    /\ NoSpider
    /\ DedupeIdle
    /\ p_pc = "ready"
    /\ p_lines \in ListingsUpTo(MaxLines)
    /\ p_now \in {StartTime, MaxTime}
    /\ p_out = <<>>

\* parse_dir(ftp_obj) on the lines the server sent: it returns (dirs, files)
\* or raises
ParseCall ==
    /\ p_pc = "ready"
    /\ p_out' = ParseDir(p_lines, p_now)
    /\ p_pc' = "returned"
    /\ UNCHANGED <<envvars, sessvars, walkvars, walkobs, spidervars, spiderobs, localvars,
                   dedupevars, p_lines, p_now>>

NextParse == ParseCall
SpecParse == InitParse /\ [][NextParse]_vars

\* --------------------------------------------------------------- dedupe.py
\* A path is the rank of a file in the order of os.walk(dir_path); a content
\* is a number, and two files hold the same bytes when they hold the same
\* content.  get_size gives several contents the same size; sha256 gives two
\* contents the same digest only when they are the same bytes.
MaxPaths == 4           \* files under dir_path
MaxContent == 2         \* contents are 0..MaxContent
Contents == 0..MaxContent
get_size(c) == c \div 2
get_hash(c) == c

RECURSIVE WalkOrder(_, _)
WalkOrder(files, i) ==
    IF i > MaxPaths THEN <<>>
    ELSE (IF i \in DOMAIN files THEN <<i>> ELSE <<>>) \o WalkOrder(files, i + 1)

\* sizes[size].append(f_path) over os.walk
BySize(files) ==
    [s \in {get_size(files[f]) : f \in DOMAIN files} |->
        LET HasSize(f) == get_size(files[f]) = s
        IN SelectSeq(WalkOrder(files, 1), HasSize)]
\* hashes[hash].append(f_path) over the lists of sizes with a second path; the
\* paths of one digest all come from one list of sizes, in its order
ByHash(files, sizes) ==
    LET hashed == {f \in DOMAIN files : Len(sizes[get_size(files[f])]) > 1}
    IN [h \in {get_hash(files[f]) : f \in hashed} |->
            LET HasHash(f) == f \in hashed /\ get_hash(files[f]) = h
            IN SelectSeq(WalkOrder(files, 1), HasHash)]
\* duplicates = f_paths[1:]
OthersAndFirst(f_paths) == f_paths
Others(f_paths) == Tail(f_paths)

InitDedupe ==
    /\ NoSpider
    /\ ParseIdle
    /\ d_pc = "scan"
    /\ d_delete \in BOOLEAN
    /\ d_interactive \in BOOLEAN
    /\ d_files \in UNION {[1..n -> Contents] : n \in 0..MaxPaths}
    /\ d_initial = d_files
    /\ d_sizes = <<>>
    /\ d_hashes = <<>>
    /\ d_duplicates = {}
    /\ d_o_file = 0
    /\ d_rest = <<>>

dedupe_others == <<envvars, sessvars, walkvars, walkobs, spidervars, spiderobs, localvars, parsevars,
                   d_delete, d_interactive, d_initial>>

\* for root, dirs, files in os.walk(dir_path): sizes
DedupeScan ==
    /\ d_pc = "scan"
    /\ d_sizes' = BySize(d_files)
    /\ d_pc' = "hash"
    /\ UNCHANGED <<dedupe_others, d_files, d_hashes, d_duplicates, d_o_file, d_rest>>

\* for _, f_paths in sizes.items(): hashes
DedupeHash ==
    /\ d_pc = "hash"
    /\ d_hashes' = ByHash(d_files, d_sizes)
    /\ d_pc' = "collect"
    /\ UNCHANGED <<dedupe_others, d_files, d_sizes, d_duplicates, d_o_file, d_rest>>

\* duplicates = the lists of hashes with a second path; nothing to remove
\* when there is none or delete is off
DedupeCollect ==
    /\ d_pc = "collect"
    /\ LET found == {d_hashes[h] : h \in {g \in DOMAIN d_hashes : Len(d_hashes[g]) > 1}}
       IN IF found # {} /\ d_delete
          THEN d_duplicates' = found /\ d_pc' = "remove"
          ELSE d_duplicates' = {} /\ d_pc' = "done"
    /\ UNCHANGED <<dedupe_others, d_files, d_sizes, d_hashes, d_o_file, d_rest>>

\* for f_paths in duplicates (in the order of the dictionary, which is any):
\* o_file = f_paths[0]; duplicates = f_paths[1:]
DedupeNextGroup ==
    /\ d_pc = "remove"
    /\ d_rest = <<>>
    /\ \E f_paths \in d_duplicates :
         /\ d_o_file' = f_paths[1]
         /\ d_rest' = Others(f_paths)
         /\ d_duplicates' = d_duplicates \ {f_paths}
    /\ UNCHANGED <<dedupe_others, d_pc, d_files, d_sizes, d_hashes>>

\* one pass of the inner loop: ask when interactive, os.unlink(f_path)
DedupeRemove ==
    /\ d_pc = "remove"
    /\ d_rest # <<>>
    /\ \E remove \in (IF d_interactive THEN BOOLEAN ELSE {TRUE}), o \in {"ok", "unlink fails"} :
         IF ~remove
         THEN /\ o = "ok"
              /\ d_rest' = Tail(d_rest)
              /\ UNCHANGED <<d_pc, d_files>>
         ELSE IF o = "ok"
              THEN /\ d_files' = [f \in DOMAIN d_files \ {Head(d_rest)} |-> d_files[f]]
                   /\ d_rest' = Tail(d_rest)
                   /\ UNCHANGED d_pc
              ELSE /\ d_pc' = "raised"
                   /\ UNCHANGED <<d_files, d_rest>>
    /\ UNCHANGED <<dedupe_others, d_sizes, d_hashes, d_duplicates, d_o_file>>

\* both loops are exhausted: main() returns
DedupeReturn ==
    /\ d_pc = "remove"
    /\ d_rest = <<>>
    /\ d_duplicates = {}
    /\ d_pc' = "done"
    /\ UNCHANGED <<dedupe_others, d_files, d_sizes, d_hashes, d_duplicates, d_o_file, d_rest>>

NextDedupe ==
    \/ DedupeScan \/ DedupeHash \/ DedupeCollect
    \/ DedupeNextGroup \/ DedupeRemove \/ DedupeReturn
SpecDedupe == InitDedupe /\ [][NextDedupe]_vars

\* ------------------------------------------------------- claims on walk()
Subtree(p) == {q \in tree : IsPrefix(p, q)}
Range(s) == {s[i] : i \in 1..Len(s)}
NoDuplicates(s) == \A i, j \in 1..Len(s) : s[i] = s[j] => i = j

\* C1: a walk yields no directory twice and only directories under
\* starting_path; a directory is yielded before every descendant of it, the
\* records of a subtree are consecutive (the subtree of an entered
\* subdirectory is finished before a sibling is entered), and an exhausted
\* walk has yielded every directory under starting_path.
C1_PreOrderOnce ==
    /\ NoDuplicates(visited)
    /\ Range(visited) \subseteq Subtree(starting_path)
    /\ \A i, j \in 1..Len(visited) :
         IsProperPrefix(visited[i], visited[j]) => i < j
    /\ \A i, j, k \in 1..Len(visited) :
         (i < j /\ j < k /\ IsPrefix(visited[i], visited[k])) => IsPrefix(visited[i], visited[j])
    /\ wpc = "done" => Range(visited) = Subtree(starting_path)

C1_Witness ==
    /\ wpc = "done"
    /\ Len(visited) >= 4
    /\ Cardinality(Children(tree, starting_path)) = 2
    /\ \E p \in Range(visited) : Len(p) = Len(starting_path) + 2

\* C2: when a walk is exhausted, the session is back in starting_path and
\* dir_stack is empty.
C2_Unwound == wpc = "done" => (ftp_cwd = starting_path /\ dir_stack = <<>>)

C2_Witness == wpc = "done" /\ starting_path # Root /\ n_up >= 2 /\ session = "open"

C3_AtYield ==
    wpc = "yielded" =>
        /\ ftp_cwd = rec.cwd
        /\ Len(dir_stack) = Len(rec.cwd) - Len(starting_path)
        /\ Len(dir_stack) = n_down - n_up
        /\ n_push = n_down
        /\ n_pop = n_up
C3_Paired ==
    /\ n_push' # n_push => (n_push' = n_push + 1 /\ n_down' = n_down + 1 /\ n_up' = n_up)
    /\ n_down' # n_down => n_push' = n_push + 1
    /\ n_pop' # n_pop => (n_pop' = n_pop + 1 /\ n_down' = n_down
                          /\ (n_up' = n_up + 1 \/ wpc' = "failed"))
    /\ n_up' # n_up => n_pop' = n_pop + 1
\* C3: at every yield the session is in the yielded path, the length of
\* dir_stack is the depth of that path below starting_path and is the number
\* of moves down minus the number of moves up; pushes and moves down, pops and
\* moves up are equal in number, a push happens only with a move down and a
\* pop only with a move up (which the server may refuse, ending the walk).
C3_StackTracksCursor == [](C3_AtYield) /\ [][C3_Paired]_vars

C3_Witness == wpc = "yielded" /\ n_up >= 1 /\ Len(dir_stack) >= 1 /\ n_down >= 3

\* ------------------------------------------------------ claims on spider()
Clean(r) == ~r.failure /\ ~r.raised
Listings(r) == [p \in tree |-> Listing(p, r.rfiles, r.now)]
RegularFiles(rf) == {f \in DOMAIN rf : f[2] \in {"a", "b"}}
\* the date parse_dir gives the entry of f when it is listed at t
ListedDate(f, rf, t) == ParseLine(Line("-", f[2], rf[f], t), t).entry[2]
Merge(old, new) ==
    [k \in DOMAIN old \cup DOMAIN new |-> IF k \in DOMAIN new THEN new[k] ELSE old[k]]
Ended == pc \in {"returned", "raised"}

\* C4: of two successive runs that both complete, against listings that are
\* the same in both, the second issues no retrieval.
C4_SecondRunIdle ==
    \A i \in 1..(Len(runs_log) - 1) :
        (Clean(runs_log[i]) /\ Clean(runs_log[i + 1])
         /\ Listings(runs_log[i]) = Listings(runs_log[i + 1]))
        => runs_log[i + 1].retrieved = <<>>

\* C5: when exactly one remote file is modified between two complete runs,
\* the second run retrieves that file and no other and leaves the store with
\* the date listed for it.
C5_OnlyChangedFile ==
    \A i \in 1..(Len(runs_log) - 1) :
        LET r1 == runs_log[i]
            r2 == runs_log[i + 1]
        IN \A f \in RegularFiles(r1.rfiles) :
            (/\ Clean(r1) /\ Clean(r2)
             /\ r2.rfiles[f] > r1.rfiles[f]
             /\ \A g \in DOMAIN r1.rfiles \ {f} : r2.rfiles[g] = r1.rfiles[g])
            => /\ r2.retrieved = <<f>>
               /\ f \in DOMAIN r2.stored
               /\ r2.stored[f] = ListedDate(f, r2.rfiles, r2.now)

C6_Step ==
    /\ (pc' # "ready" /\ downloaded' # downloaded) =>
          \E k \in DOMAIN downloaded' :
             /\ retrieved' = Append(retrieved, k)
             /\ pc' = "files"
             /\ k \in DOMAIN completed' /\ completed'[k] = downloaded'[k]
             /\ \A j \in DOMAIN downloaded' \ {k} :
                  j \in DOMAIN downloaded /\ downloaded'[j] = downloaded[j]
    /\ (pc = "files" /\ pc' = "except") => downloaded' = downloaded
    /\ statefile' # statefile =>
          \A k \in DOMAIN statefile'.data :
             \/ k \in DOMAIN completed /\ completed[k] = statefile'.data[k]
             \/ k \in DOMAIN loaded /\ loaded[k] = statefile'.data[k]
\* C6: during a run the store changes at a path only with the successful
\* return of the retrieval of that path in this run; a retrieval that fails
\* leaves the store as it was; what is persisted holds, for every path, the
\* loaded date or the date of a retrieval completed in this run.
C6_RecordOnlyAfterRetrieval == [][C6_Step]_vars

C6_Witness ==
    /\ pc = "quit"
    /\ failure
    /\ retrieved # <<>>
    /\ Last(retrieved) \notin DOMAIN completed
    /\ Last(retrieved) \in DOMAIN loaded
    /\ statefile.data[Last(retrieved)] = loaded[Last(retrieved)]
    /\ completed # <<>>

\* C7: every run that has ended has restored the working directory, then
\* persisted the store, then closed the session, each once; the steps of
\* finalization are taken in that order in every run.
C7_FinalizedInOrder ==
    /\ \E n \in 0..3 : fin_log = SubSeq(<<"restore", "persist", "close">>, 1, n)
    /\ Ended => (fin_log = <<"restore", "persist", "close">> /\ session = "closed")

\* C8: the state a failed run persists is the state loaded at construction
\* with one record, path -> listed date, for every retrieval completed before
\* the failure.
C8_FailedRunKeepsProgress ==
    (failure /\ pc \in {"quit", "returned", "raised"}) =>
        /\ statefile.exists
        /\ statefile.data = Merge(loaded, completed)
        /\ pc = "quit" => \A k \in DOMAIN completed : completed[k] = ListedDate(k, rfiles, now)

C8_Witness ==
    /\ failure
    /\ pc = "raised"
    /\ completed # <<>>
    /\ \E k \in DOMAIN loaded : k \notin DOMAIN completed
    /\ \E k \in DOMAIN loaded : k \in DOMAIN completed /\ completed[k] > loaded[k]

\* C9: spider() never raises: every run ends by returning to its caller.
C9_NeverRaises == pc # "raised"

\* C10: a controller constructed with no state file starts with an empty
\* store, and its run, when the traversal completes, has retrieved every
\* regular file of the tree once and holds one record for each and no other.
C10_FirstRunRetrievesAll ==
    /\ (pc = "ready" /\ ~statefile.exists) => downloaded = <<>>
    /\ (pc \in {"finally", "save"} /\ ~failure /\ ~statefile.exists) =>
          /\ NoDuplicates(retrieved)
          /\ Range(retrieved) = RegularFiles(rfiles)
          /\ DOMAIN downloaded = RegularFiles(rfiles)
          /\ \A f \in DOMAIN downloaded : downloaded[f] = ListedDate(f, rfiles, now)

C10_Witness ==
    /\ pc = "save" /\ ~failure /\ ~statefile.exists
    /\ Cardinality(tree) >= 2
    /\ \E f \in DOMAIN rfiles : f[2] = "ln -> a" /\ f[1] # Root
    /\ \E f \in DOMAIN rfiles : f[2] = "a" /\ f[1] # Root

\* ------------------------------------------------- claims, second part
\* the target root as the operating system resolves it when the run starts,
\* joined with the components of a remote path
Mirror(p) == current_dir \o <<TargetName>> \o p

\* what "%b %d %Y" cannot read
BadDate(line) == line.md \notin 0..(PeriodsPerYear - 1)

\* C12: when parse_dir returns entries, no non-blank line it was given has
\* fewer than 9 tokens or an unparseable date: for such a line it raises and
\* returns no entry.
C12_MalformedLineRaises ==
    p_pc = "returned" =>
        \A i \in 1..Len(p_lines) :
            (p_lines[i].ntok # 0 /\ (p_lines[i].ntok < 9 \/ BadDate(p_lines[i]))) => p_out.err

\* C11: for an absolute and for a relative target_dir alike, every remote
\* directory the run visits is mapped to the target root, as resolved when the
\* run starts, joined with the components of the remote path; the controller
\* works in that directory, which exists, and every file retrieved from the
\* remote directory is written there under its remote name.
C11_MirroredLayout ==
    pc \in {"next", "files", "except", "restore"} =>
        /\ \A e \in local_log : e[2] = Mirror(e[1])
        /\ pc = "files" => (proc_cwd = Mirror(rec.cwd) /\ proc_cwd \in ldirs)
        /\ \A k \in DOMAIN completed : <<Mirror(k[1]), k[2]>> \in DOMAIN lfiles

\* the link indicator in a name
HasArrow(name) == name = "ln -> a"

\* C13: no record the walker yields has a symbolic-link entry among its file
\* entries, and no symbolic-link entry is retrieved or recorded in the store.
C13_LinksNeverSurfaced ==
    /\ wpc = "yielded" => \A i \in 1..Len(rec.files) : ~HasArrow(rec.files[i][1])
    /\ \A i \in 1..Len(retrieved) : ~HasArrow(retrieved[i][2])
    /\ \A k \in DOMAIN downloaded : ~HasArrow(k[2])

\* the subdirectories of p in the order of p's listing, and the ones entered
\* so far in the order of entry
RECURSIVE Reverse(_)
Reverse(l) == IF l = <<>> THEN <<>> ELSE Append(Reverse(Tail(l)), Head(l))
ListedUnder(p) ==
    LET names == Names(ParseDir(Listing(p, rfiles, now), now).dirs)
    IN [i \in 1..Len(names) |-> Append(p, names[i])]
EnteredUnder(p) ==
    LET IsChild(q) == q # Root /\ Front(q) = p
    IN SelectSeq(visited, IsChild)
IsPrefixSeq(a, b) == Len(a) <= Len(b) /\ SubSeq(b, 1, Len(a)) = a

C14_Order ==
    \A p \in Range(visited) :
        /\ IsPrefixSeq(EnteredUnder(p), Reverse(ListedUnder(p)))
        /\ wpc = "done" => EnteredUnder(p) = Reverse(ListedUnder(p))
C14_Step ==
    /\ n_down' = n_down + 1 =>
          /\ dirs # <<>>
          /\ ftp_cwd' = Append(ftp_cwd, Last(dirs))
          /\ dirs' = Front(dirs)
          /\ dir_stack' = Append(dir_stack, Front(dirs))
    /\ n_up' = n_up + 1 =>
          /\ dir_stack # <<>>
          /\ dirs' = Last(dir_stack)
          /\ dir_stack' = Front(dir_stack)
          /\ ftp_cwd' = Front(ftp_cwd)
\* C14: the subdirectories of one directory are entered in the reverse of
\* the order of its listing (all of them once the walk is exhausted).  A
\* descent takes the last remaining sibling, moves the session into it and
\* pushes the other remaining siblings as a frame; a backtrack pops the frame
\* pushed last, moves the session up one level and goes on with that frame.
C14_ReverseSiblingOrder == [](C14_Order) /\ [][C14_Step]_vars

C14_Witness ==
    /\ wpc = "done"
    /\ Cardinality(Children(tree, starting_path)) = 3
    /\ Len(EnteredUnder(starting_path)) = 3

\* C15: a walk whose consumer keeps asking for records comes to an end: unless
\* a command of the session fails (or a listing cannot be parsed), it reaches
\* done, which it does only with no sibling left at the current level and
\* dir_stack empty, and from then on it yields no record.
C15_WalkEnds ==
    /\ <>(wpc \in {"done", "failed"})
    /\ [](wpc = "done" => (dirs = <<>> /\ dir_stack = <<>>))
    /\ [][wpc = "done" => (wpc' = "done" /\ visited' = visited)]_vars

C15_Witness == wpc = "done" /\ session = "open" /\ Len(visited) = MaxDirs /\ n_up = MaxDirs - 1

\* the lines parse_dir turns into directory entries (into file entries), in
\* the order of the listing
LinesOfKind(isdir) ==
    LET OfKind(l) == l.ntok # 0 /\ ((l.perms = "d") <=> isdir)
    IN SelectSeq(p_lines, OfKind)
ShowsTime(line) == line.tok7 \in {Colon, AnotherColon}
\* an entry carries the month and day of its line and the year of the line,
\* or the year of the parse when the line shows a time of day
DatedBy(entry, line) ==
    /\ entry[2] % PeriodsPerYear = line.md
    /\ entry[2] \div PeriodsPerYear =
            IF ShowsTime(line) THEN p_now \div PeriodsPerYear ELSE line.tok7

\* C16: the timestamp of every entry parse_dir returns is made of the month
\* and day of its line and of a year: the line's own third date token when it
\* holds no colon, the year current at the parse when it holds one; which time
\* of day the token shows makes no difference to the timestamp.
C16_DayGranularDate ==
    (p_pc = "returned" /\ ~p_out.err) =>
        /\ Len(p_out.dirs) = Len(LinesOfKind(TRUE))
        /\ Len(p_out.files) = Len(LinesOfKind(FALSE))
        /\ \A i \in 1..Len(p_out.dirs) : DatedBy(p_out.dirs[i], LinesOfKind(TRUE)[i])
        /\ \A i \in 1..Len(p_out.files) : DatedBy(p_out.files[i], LinesOfKind(FALSE)[i])

\* a listing parsed in year 1 with two files of the same month and day, one
\* shown with a time of day and one with the year 0
C16_Witness ==
    /\ p_pc = "returned"
    /\ ~p_out.err
    /\ p_now \div PeriodsPerYear = 1
    /\ Len(p_out.files) = 2
    /\ ShowsTime(p_lines[1]) /\ p_lines[2].tok7 = 0
    /\ p_lines[1].md = p_lines[2].md
    /\ p_out.files[1][2] = p_out.files[2][2] + PeriodsPerYear

\* store b holds every path of store a, with a timestamp that is not smaller
AtLeast(a, b) == \A k \in DOMAIN a : k \in DOMAIN b /\ b[k] >= a[k]

C17_Step ==
    /\ pc' # "ready" => AtLeast(downloaded, downloaded')
    /\ pc' = "ready" => AtLeast(LoadState(statefile), downloaded')
    /\ AtLeast(LoadState(statefile), LoadState(statefile'))
    /\ \A k \in DOMAIN downloaded' :
          (pc' # "ready" /\ (k \notin DOMAIN downloaded \/ downloaded'[k] # downloaded[k])) =>
              /\ files_left # <<>>
              /\ k = FullPath(rec.cwd, Head(files_left)[1])
              /\ downloaded'[k] = Head(files_left)[2]
    /\ retrieved' # retrieved /\ retrieved' # <<>> =>
          LET k == Last(retrieved')
          IN k \notin DOMAIN downloaded \/ Head(files_left)[2] > downloaded[k]
\* C17: no step removes a path from the mirror store or lowers its timestamp:
\* not a step of a run on self._downloaded, not the load of the state file
\* into a new controller, not the save over the state file an earlier run
\* left.  A retrieval is issued, and a record written, only for a path that
\* is absent from the store or listed with a strictly greater timestamp.
C17_StoreNeverRegresses == [][C17_Step]_vars

\* a run has ended that found two paths in the state file, re-recorded one
\* with a greater timestamp and kept the other, listed with a smaller one
C17_Witness ==
    /\ pc = "quit"
    /\ \E k, j \in DOMAIN loaded :
          /\ k \in DOMAIN completed /\ statefile.data[k] > loaded[k]
          /\ ListedDate(j, rfiles, now) < loaded[j] /\ statefile.data[j] = loaded[j]

\* C18: whenever the store holds a record made by a successful download of
\* this run, the local file at the mirrored location of the path holds
\* exactly the bytes that retrieval delivered, the remote file as it is, with
\* nothing left over from an earlier version or an interrupted download.
C18_LocalCopyExact ==
    pc \in {"files", "next", "except", "restore", "save", "quit"} =>
        \A k \in DOMAIN completed :
            LET f == <<Mirror(k[1]), k[2]>>
            IN f \in DOMAIN lfiles /\ lfiles[f] = Whole(rfiles[k])

\* the local directory spider() is about to check, make and enter for the
\* record it was handed
WriteDirNow == Resolve(WriteDir(tar_dir, rec.cwd), proc_cwd)

\* C19: with an absolute target root that exists, whenever spider() is about
\* to make the local directory of a visited remote directory other than the
\* starting one, the local directory of the parent of that remote directory
\* is the parent of the directory to make, and it exists: the walker yielded
\* the parent before, and the controller made or found its directory then.
C19_ParentMadeFirst ==
    (tar_dir.abs /\ pc = "next" /\ wpc = "yielded" /\ WriteDirNow \notin ldirs) =>
        /\ rec.cwd # starting_path
        /\ Front(WriteDirNow) = Mirror(Front(rec.cwd))
        /\ Front(WriteDirNow) \in ldirs
        /\ <<Front(rec.cwd), Front(WriteDirNow)>> \in local_log

\* the directory to make is two levels below the target root, which was
\* empty when the run started
C19_Witness ==
    /\ tar_dir.abs /\ pc = "next" /\ wpc = "yielded"
    /\ WriteDirNow \notin ldirs
    /\ Len(rec.cwd) = 2
    /\ n_up >= 1

\* the paths that held, when main() was called, the size and the digest of f
GroupOf(f) ==
    {g \in DOMAIN d_initial :
        /\ get_size(d_initial[g]) = get_size(d_initial[f])
        /\ get_hash(d_initial[g]) = get_hash(d_initial[f])}
FirstOf(S) == CHOOSE f \in S : \A g \in S : f <= g
Kept == DOMAIN d_files

\* C20: main() never removes the first path of a group of files of the same
\* size and digest, nor a file whose size and digest no other file has, nor
\* any file when delete is off, and it changes no file.  When it returns with
\* delete on and interactive off, every other path of every group of two or
\* more is removed: one copy of each duplicated content remains.
C20_KeepsOneCopy ==
    /\ \A f \in Kept : d_files[f] = d_initial[f]
    /\ \A f \in DOMAIN d_initial :
          /\ FirstOf(GroupOf(f)) \in Kept
          /\ GroupOf(f) = {f} => f \in Kept
          /\ ~d_delete => f \in Kept
          /\ (d_pc = "done" /\ d_delete /\ ~d_interactive) =>
                GroupOf(f) \cap Kept = {FirstOf(GroupOf(f))}

\* main() has returned after removing the second copy of a content and
\* keeping the first, a file of the same size and another digest, and a file
\* of a size of its own
C20_Witness ==
    /\ d_pc = "done" /\ d_delete /\ ~d_interactive
    /\ d_initial = <<0, 2, 0, 1>>
    /\ Kept = {1, 2, 4}
====
